---- MODULE Spec2Model ----
(***************************************************************************)
(* Model of the C implementation of train_sim: the table interpolator and  *)
(* the five summation rules of summation.c, and the sequential and OpenMP  *)
(* pipelines run_sim / run_sim_openmp that main dispatches to.             *)
(*                                                                         *)
(* Doubles are modelled as exact rationals [n, d] in lowest terms (d > 0), *)
(* so rounding of the IEEE arithmetic is not represented.  A call that     *)
(* ends in exit(EXIT_FAILURE) yields the value Exit, which every           *)
(* arithmetic operator passes on: no statement after the call runs.        *)
(***************************************************************************)
EXTENDS Integers, Sequences, FiniteSets, Bags, TLC

VARIABLES
    pc,          \* position of the process: main, a pipeline location, or the direct caller
    in_main,     \* TRUE when the pipeline was entered through main
    fn,          \* the pipeline function executing: "run_sim", "run_sim_openmp" or "none"
    args,        \* struct sim_args: threads, algo, step, iterations
    accel,       \* struct lut_info of the acceleration table (len, lut)
    vel_lut,     \* struct lut_info of the velocity table owned by the pipeline
    c,           \* iteration counter of the outer for loop
    vel_final,   \* local vel_final of the current iteration
    pos_final,   \* local (shared, in the reduction) pos_final of the current iteration
    todo,        \* loop indices of the current omp parallel for not yet executed
    priv,        \* the private copies of pos_final, one per thread still in the reduction
    time_count,  \* time_data.count: number of timing_update calls
    printed,     \* the velocity/position result lines written to stdout
    stderr,      \* the distinct diagnostics written to stderr
    status,      \* process status: "running", "EXIT_SUCCESS" or "EXIT_FAILURE"
    first,       \* history: the result of the first iteration that computed one
    call,        \* the summation.c function last called directly, with its arguments
    ret          \* the value that call returned to its caller

vars == <<pc, in_main, fn, args, accel, vel_lut, c, vel_final, pos_final, todo,
          priv, time_count, printed, stderr, status, first, call, ret>>

-----------------------------------------------------------------------------
(* Bounds of the model *)

MaxLen == 2      \* longest sample table drawn, besides the scenario table
MaxStep == 2     \* largest subdivision count (args->step)
MaxIter == 2     \* largest iteration count (args->iterations)

Samples == {0, 5}                  \* sample values of the tables the pipelines run on
UnitSamples == {-1, 0, 2}          \* sample values of the tables of the direct calls
ThreadCounts == {1, 2, 4}          \* configured thread counts
ScenarioTable == <<0, 1, 2, 3>>    \* the acceleration ramp of seconds 0..3

-----------------------------------------------------------------------------
(* enum ALGO *)

LEFT_RIEMANN == 0
MID_RIEMANN == 1
RIGHT_RIEMANN == 2
TRAPEZOIDAL == 3
SIMPSONS == 4

Algos == {LEFT_RIEMANN, MID_RIEMANN, RIGHT_RIEMANN, TRAPEZOIDAL, SIMPSONS}

-----------------------------------------------------------------------------
(* double arithmetic over exact rationals *)

Abs(i) == IF i < 0 THEN -i ELSE i

RECURSIVE GCD(_, _)
GCD(a, b) == IF b = 0 THEN a ELSE GCD(b, a % b)

\* the rational n/d (d # 0) in lowest terms with a positive denominator
Norm(n, d) ==
    LET s == IF d < 0 THEN -1 ELSE 1
        g == GCD(Abs(n), Abs(d))
    IN  [n |-> (s * n) \div g, d |-> (s * d) \div g]

\* (double)i
Dbl(i) == [n |-> i, d |-> 1]

\* the value of an expression whose evaluation called exit(EXIT_FAILURE)
Exit == [n |-> 0, d |-> 0]

\* the indeterminate content of a malloc'ed slot that was never written
Indeterminate == [n |-> 1, d |-> 0]

\* an operand that is no number: the first of them decides the expression
Poison(a, b) == IF a.d = 0 THEN a ELSE b

DAdd(a, b) ==
    IF a.d = 0 \/ b.d = 0 THEN Poison(a, b)
    ELSE Norm(a.n * b.d + b.n * a.d, a.d * b.d)

DSub(a, b) ==
    IF a.d = 0 \/ b.d = 0 THEN Poison(a, b)
    ELSE Norm(a.n * b.d - b.n * a.d, a.d * b.d)

DMul(a, b) ==
    IF a.d = 0 \/ b.d = 0 THEN Poison(a, b)
    ELSE Norm(a.n * b.n, a.d * b.d)

\* a / b for b # 0
DDiv(a, b) ==
    IF a.d = 0 \/ b.d = 0 THEN Poison(a, b)
    ELSE Norm(a.n * b.d, a.d * b.n)

\* floor(x) == x
IsWhole(x) == x.d = 1

\* (int32_t)x: conversion of a double to an integer truncates toward zero
\* (every x drawn is far inside the range of int32_t)
ToInt32(x) == IF x.n >= 0 THEN x.n \div x.d ELSE -((-x.n) \div x.d)

\* the mathematical floor of x, for stating properties
Floor(x) == x.n \div x.d

-----------------------------------------------------------------------------
(* summation.c *)

\* struct lut_info over an array indexed 0..len-1
MkLut(seq) == [len |-> Len(seq), lut |-> [i \in 0..(Len(seq) - 1) |-> Dbl(seq[i + 1])]]

\* get_lut_index with the lower bound tested as index <= 0
get_lut_index_le(lut, index) ==
    IF index <= 0 \/ index >= lut.len
    THEN Exit
    ELSE lut.lut[index]

\* get_lut_index answering 0.0 for an index out of bounds instead of exiting
get_lut_index_default(lut, index) ==
    IF index < 0 \/ index >= lut.len
    THEN Dbl(0)
    ELSE lut.lut[index]

get_lut_index(lut, index) ==
    IF index < 0 \/ index >= lut.len
    THEN Exit
    ELSE lut.lut[index]

calc_linear_interpolation(context, x) ==
    LET lut == context IN
    IF IsWhole(x)
    THEN get_lut_index(lut, ToInt32(x))
    ELSE
        LET x0_index == ToInt32(x)
            x1_index == x0_index + 1
            x0 == Dbl(x0_index)
            y0 == get_lut_index(lut, x0_index)
            y1 == get_lut_index(lut, x1_index)
        IN  \* y0 is fetched first: when it exits, y1 is never fetched
            IF y0.d = 0 THEN y0
            ELSE IF y1.d = 0 THEN y1
            ELSE DAdd(y0, DMul(DSub(x, x0), DSub(y1, y0)))

\* typedef double (*summation_cb)(void*, double): the call through the function
\* pointer cb; calc_linear_interpolation is the one function ever passed
summation_cb(cb, context, x) ==
    CASE cb = "calc_linear_interpolation" -> calc_linear_interpolation(context, x)

\* left_riemann sampling the right end of each subinterval
left_riemann_right(lower, upper, iterations, context, cb) ==
    LET step == DDiv(DSub(upper, lower), Dbl(iterations))
        x(iter) == DAdd(lower, DMul(Dbl(iter + 1), step))
        sum[k \in 0..iterations] ==
            IF k = 0 THEN Dbl(0) ELSE DAdd(sum[k - 1], summation_cb(cb, context, x(k - 1)))
    IN  DMul(step, sum[iterations])

left_riemann(lower, upper, iterations, context, cb) ==
    LET step == DDiv(DSub(upper, lower), Dbl(iterations))
        x(iter) == DAdd(lower, DMul(Dbl(iter), step))
        \* sum[k]: the value of sum once the iterations iter < k have run
        sum[k \in 0..iterations] ==
            IF k = 0 THEN Dbl(0) ELSE DAdd(sum[k - 1], summation_cb(cb, context, x(k - 1)))
    IN  DMul(step, sum[iterations])

mid_riemann(lower, upper, iterations, context, cb) ==
    LET step == DDiv(DSub(upper, lower), Dbl(iterations))
        half_step == DDiv(step, Dbl(2))
        x(iter) == DAdd(DAdd(lower, DMul(Dbl(iter), step)), half_step)
        sum[k \in 0..iterations] ==
            IF k = 0 THEN Dbl(0) ELSE DAdd(sum[k - 1], summation_cb(cb, context, x(k - 1)))
    IN  DMul(step, sum[iterations])

\* right_riemann stepping one subinterval too far: the last sample lies
\* beyond upper
right_riemann_over(lower, upper, iterations, context, cb) ==
    LET step == DDiv(DSub(upper, lower), Dbl(iterations))
        x(iter) == DAdd(lower, DMul(Dbl(iter + 2), step))
        sum[k \in 0..iterations] ==
            IF k = 0 THEN Dbl(0) ELSE DAdd(sum[k - 1], summation_cb(cb, context, x(k - 1)))
    IN  DMul(step, sum[iterations])

right_riemann(lower, upper, iterations, context, cb) ==
    LET step == DDiv(DSub(upper, lower), Dbl(iterations))
        x(iter) == DAdd(lower, DMul(Dbl(iter + 1), step))
        sum[k \in 0..iterations] ==
            IF k = 0 THEN Dbl(0) ELSE DAdd(sum[k - 1], summation_cb(cb, context, x(k - 1)))
    IN  DMul(step, sum[iterations])

\* trapezoidal without the halving of the two end points
trapezoidal_nohalf(lower, upper, iterations, context, cb) ==
    LET step == DDiv(DSub(upper, lower), Dbl(iterations))
        x(iter) == DAdd(lower, DMul(Dbl(iter), step))
        sum[k \in 1..iterations] ==
            IF k = 1
            THEN DAdd(summation_cb(cb, context, lower), summation_cb(cb, context, upper))
            ELSE DAdd(sum[k - 1], summation_cb(cb, context, x(k - 1)))
    IN  DMul(step, sum[iterations])

trapezoidal(lower, upper, iterations, context, cb) ==
    LET step == DDiv(DSub(upper, lower), Dbl(iterations))
        x(iter) == DAdd(lower, DMul(Dbl(iter), step))
        \* sum[k]: the value of sum once the iterations 1 <= iter < k have run
        sum[k \in 1..iterations] ==
            IF k = 1
            THEN DDiv(DAdd(summation_cb(cb, context, lower), summation_cb(cb, context, upper)), Dbl(2))
            ELSE DAdd(sum[k - 1], summation_cb(cb, context, x(k - 1)))
    IN  DMul(step, sum[iterations])

\* simpsons with the weights 4 and 2 exchanged
simpsons_swapped(lower, upper, iterations, context, cb) ==
    LET step == DDiv(DSub(upper, lower), Dbl(iterations))
        x(iter) == DAdd(lower, DMul(Dbl(iter), step))
        term(iter) ==
            LET res == summation_cb(cb, context, x(iter)) IN
            IF iter = 0 \/ iter = iterations THEN res
            ELSE IF iter % 2 = 1 THEN DMul(Dbl(2), res)
            ELSE DMul(Dbl(4), res)
        sum[k \in 0..(iterations + 1)] ==
            IF k = 0 THEN Dbl(0) ELSE DAdd(sum[k - 1], term(k - 1))
    IN  DDiv(DMul(step, sum[iterations + 1]), Dbl(3))

simpsons(lower, upper, iterations, context, cb) ==
    LET step == DDiv(DSub(upper, lower), Dbl(iterations))
        x(iter) == DAdd(lower, DMul(Dbl(iter), step))
        term(iter) ==
            LET res == summation_cb(cb, context, x(iter)) IN
            IF iter = 0 \/ iter = iterations THEN res
            ELSE IF iter % 2 = 1 THEN DMul(Dbl(4), res)
            ELSE DMul(Dbl(2), res)
        \* sum[k]: the value of sum once the iterations iter < k have run
        sum[k \in 0..(iterations + 1)] ==
            IF k = 0 THEN Dbl(0) ELSE DAdd(sum[k - 1], term(k - 1))
    IN  DDiv(DMul(step, sum[iterations + 1]), Dbl(3))

-----------------------------------------------------------------------------
(* sim.c: the state shared by main and the two pipelines *)

\* the sample tables drawn as input: every table over Samples of 1..MaxLen
\* entries, and the scenario ramp
Tables ==
    UNION {[1..l -> Samples] : l \in 1..MaxLen} \cup {ScenarioTable}

\* struct sim_args as app_args_init and the parse_*_arg functions leave it:
\* threads, step and iterations are at least 1, algo is a member of enum ALGO
SimArgs ==
    [threads : ThreadCounts, algo : Algos, step : 1..MaxStep, iterations : 1..MaxIter]

\* the values app_args_init sets before any option is parsed
DefaultArgs == [threads |-> 1, algo |-> LEFT_RIEMANN, step |-> 10, iterations |-> 1]

\* a struct lut_info that owns no storage
NoLut == [len |-> 0, lut |-> [i \in {} |-> Dbl(0)]]

\* no double: the return slot of a call that has not returned
NoRet == [n |-> 0, d |-> -1]

NoCall == [op |-> "none", index |-> 0, x |-> Dbl(0), algo |-> LEFT_RIEMANN,
           lower |-> 0, iterations |-> 0]

NoResult == [vel |-> NoLut.lut, vel_final |-> NoRet, pos_final |-> NoRet]

\* the threads of the team of an omp parallel region: num_threads(args->threads)
Threads == 1..args.threads

\* the private copies of pos_final the reduction clause gives the team, each
\* initialised to 0.0; the threads are interchangeable, so the copies of the
\* threads still in the region are kept as a bag
TeamCopies == [p \in {Dbl(0)} |-> args.threads]

\* the function pointer the switch on args->algo selects, applied
sum_cb(algo, lower, upper, iterations, context, cb) ==
    CASE algo = MID_RIEMANN -> mid_riemann(lower, upper, iterations, context, cb)
      [] algo = RIGHT_RIEMANN -> right_riemann(lower, upper, iterations, context, cb)
      [] algo = TRAPEZOIDAL -> trapezoidal(lower, upper, iterations, context, cb)
      [] algo = SIMPSONS -> simpsons(lower, upper, iterations, context, cb)
      [] OTHER -> left_riemann(lower, upper, iterations, context, cb)

\* the summation of one second: sum_cb((double)(sec - 1), (double)sec, args->step, lut, ...)
Delta(lut, sec) ==
    sum_cb(args.algo, Dbl(sec - 1), Dbl(sec), args.step, lut, "calc_linear_interpolation")

\* the malloc without the store vel_lut.lut[0] = 0.0
AllocVel_unset ==
    [len |-> accel.len, lut |-> [i \in 0..(accel.len - 1) |-> Indeterminate]]

\* malloc(vel_lut.len * sizeof(double)) followed by vel_lut.lut[0] = 0.0
AllocVel ==
    [len |-> accel.len,
     lut |-> [i \in 0..(accel.len - 1) |-> IF i = 0 THEN Dbl(0) ELSE Indeterminate]]

\* the velocity loop with vel_final declared outside the iteration loop, so
\* that it is not reset to 0.0
SeqVelocity_stale ==
    LET run[sec \in 0..(accel.len - 1)] ==
            IF sec = 0 THEN vel_final ELSE DAdd(run[sec - 1], Delta(accel, sec))
    IN  [vel_final |-> run[accel.len - 1],
         vel_lut |-> [vel_lut EXCEPT !.lut =
                         [i \in 0..(accel.len - 1) |-> IF i = 0 THEN @[0] ELSE run[i]]]]

\* the velocity loop of run_sim: run[sec] is vel_final after the iterations <= sec
SeqVelocity ==
    LET run[sec \in 0..(accel.len - 1)] ==
            IF sec = 0 THEN Dbl(0) ELSE DAdd(run[sec - 1], Delta(accel, sec))
    IN  [vel_final |-> run[accel.len - 1],
         vel_lut |-> [vel_lut EXCEPT !.lut =
                         [i \in 0..(accel.len - 1) |-> IF i = 0 THEN @[0] ELSE run[i]]]]

\* the position loop of run_sim over the velocity table vel
SeqPosition(vel) ==
    LET run[sec \in 0..(vel.len - 1)] ==
            IF sec = 0 THEN Dbl(0) ELSE DAdd(run[sec - 1], Delta(vel, sec))
    IN  run[vel.len - 1]

\* the rolling-velocity loop assigning vel_final instead of adding to it
PrefixSum_assign(vel) ==
    [vel_final |-> vel.lut[vel.len - 1], vel_lut |-> vel]

\* the rolling-velocity loop of run_sim_openmp over index 0..len-1
PrefixSum(vel) ==
    LET run[index \in 0..(vel.len - 1)] ==
            IF index = 0 THEN DAdd(Dbl(0), vel.lut[0])
            ELSE DAdd(run[index - 1], vel.lut[index])
    IN  [vel_final |-> run[vel.len - 1], vel_lut |-> [vel EXCEPT !.lut = run]]

\* exit(EXIT_FAILURE) inside get_lut_index: the diagnostic, and the process ends
ExitProcess ==
    /\ pc' = "exited"
    /\ status' = "EXIT_FAILURE"
    /\ stderr' = stderr \cup {"lut index out of bounds"}

\* the history of the first iteration that ran to its end
Remember(vel, vf, pf) ==
    IF first = NoResult
    THEN [vel |-> vel.lut, vel_final |-> vf, pos_final |-> pf]
    ELSE first

-----------------------------------------------------------------------------
(* sim.c: main, run_sim and run_sim_openmp.  The progress log that          *)
(* log_timer_update triggers is not represented: it writes no result.      *)

Init ==
    /\ accel \in {MkLut(t) : t \in Tables}
    /\ args \in SimArgs
    /\ \/ in_main = TRUE /\ pc = "main" /\ fn = "none"
       \/ \* a caller other than main pairs a pipeline with a thread count
          \* main never gives it
          /\ in_main = FALSE
          /\ pc = "alloc"
          /\ fn = IF args.threads = 1 THEN "run_sim_openmp" ELSE "run_sim"
    /\ vel_lut = NoLut
    /\ c = 0
    /\ vel_final = Dbl(0)
    /\ pos_final = Dbl(0)
    /\ todo = {}
    /\ priv = EmptyBag
    /\ time_count = 0
    /\ printed = <<>>
    /\ stderr = {}
    /\ status = "running"
    /\ first = NoResult
    /\ call = NoCall
    /\ ret = NoRet

\* main dispatching on the threads of the host instead of args.sim.threads:
\* either pipeline may be entered, whatever the configuration
Main_fallback ==
    /\ pc = "main"
    /\ fn' \in {"run_sim", "run_sim_openmp"}
    /\ pc' = "alloc"
    /\ UNCHANGED <<in_main, args, accel, vel_lut, c, vel_final, pos_final, todo, priv,
                   time_count, printed, stderr, status, first, call, ret>>

\* main: if (args.sim.threads == 1) run_sim(...) else run_sim_openmp(...)
Main ==
    /\ pc = "main"
    /\ fn' = IF args.threads = 1 THEN "run_sim" ELSE "run_sim_openmp"
    /\ pc' = "alloc"
    /\ UNCHANGED <<in_main, args, accel, vel_lut, c, vel_final, pos_final, todo, priv,
                   time_count, printed, stderr, status, first, call, ret>>

\* the head of either pipeline: the malloc of the velocity table, and the
\* early return when it yields NULL
Alloc ==
    /\ pc = "alloc"
    /\ \/ /\ vel_lut' = AllocVel
          /\ c' = 0
          /\ pc' = "loop"
          /\ UNCHANGED stderr
       \/ /\ stderr' = stderr \cup {"failed allocating vel lookup table"}
          /\ pc' = "returned"
          /\ UNCHANGED <<vel_lut, c>>
    /\ UNCHANGED <<in_main, fn, args, accel, vel_final, pos_final, todo, priv,
                   time_count, printed, status, first, call, ret>>

\* clock_gettime(CLOCK_MONOTONIC, &start) != 0: the iteration is skipped
StartClockFail ==
    /\ pc = "loop"
    /\ c < args.iterations
    /\ stderr' = stderr \cup {"failed to retrieve start time"}
    /\ c' = c + 1
    /\ UNCHANGED <<pc, in_main, fn, args, accel, vel_lut, vel_final, pos_final, todo,
                   priv, time_count, printed, status, first, call, ret>>

\* one iteration of run_sim from the start clock read to the end of the
\* position loop
SeqIteration ==
    /\ pc = "loop"
    /\ fn = "run_sim"
    /\ c < args.iterations
    /\ LET v == SeqVelocity
           p == SeqPosition(v.vel_lut)
       IN  IF v.vel_final = Exit \/ p = Exit
           THEN /\ ExitProcess
                /\ UNCHANGED <<vel_lut, vel_final, pos_final, first>>
           ELSE /\ vel_lut' = v.vel_lut
                /\ vel_final' = v.vel_final
                /\ pos_final' = p
                /\ first' = Remember(v.vel_lut, v.vel_final, p)
                /\ pc' = "end_clock"
                /\ UNCHANGED <<status, stderr>>
    /\ UNCHANGED <<in_main, fn, args, accel, c, todo, priv, time_count,
                   printed, call, ret>>

\* run_sim_openmp: the start clock read, and the team enters the first
\* parallel for
OmpStart ==
    /\ pc = "loop"
    /\ fn = "run_sim_openmp"
    /\ c < args.iterations
    /\ todo' = 1..(accel.len - 1)
    /\ pc' = "phaseA"
    /\ UNCHANGED <<in_main, fn, args, accel, vel_lut, c, vel_final, pos_final, priv,
                   time_count, printed, stderr, status, first, call, ret>>

\* the first parallel for storing its sums in place, into the table it reads
PhaseATask_inplace(t, sec) ==
    /\ pc = "phaseA"
    /\ sec \in todo
    /\ LET d == Delta(accel, sec)
       IN  IF d = Exit
           THEN /\ ExitProcess
                /\ UNCHANGED <<accel, todo>>
           ELSE /\ accel' = [accel EXCEPT !.lut[sec] = d]
                /\ todo' = todo \ {sec}
                /\ UNCHANGED <<pc, status, stderr>>
    /\ UNCHANGED <<in_main, fn, args, vel_lut, c, vel_final, pos_final, priv,
                   time_count, printed, first, call, ret>>

\* the first parallel for keeping the running sum of run_sim: the iteration
\* adds its sum to the slot of the iteration before it
PhaseATask_rolling(t, sec) ==
    /\ pc = "phaseA"
    /\ sec \in todo
    /\ LET d == Delta(accel, sec)
       IN  IF d = Exit
           THEN /\ ExitProcess
                /\ UNCHANGED <<vel_lut, todo>>
           ELSE /\ vel_lut' = [vel_lut EXCEPT !.lut[sec] = DAdd(vel_lut.lut[sec - 1], d)]
                /\ todo' = todo \ {sec}
                /\ UNCHANGED <<pc, status, stderr>>
    /\ UNCHANGED <<in_main, fn, args, accel, c, vel_final, pos_final, priv,
                   time_count, printed, first, call, ret>>

\* thread t runs iteration sec of the first parallel for
PhaseATask(t, sec) ==
    /\ pc = "phaseA"
    /\ sec \in todo
    /\ LET d == Delta(accel, sec)
       IN  IF d = Exit
           THEN /\ ExitProcess
                /\ UNCHANGED <<vel_lut, todo>>
           ELSE /\ vel_lut' = [vel_lut EXCEPT !.lut[sec] = d]
                /\ todo' = todo \ {sec}
                /\ UNCHANGED <<pc, status, stderr>>
    /\ UNCHANGED <<in_main, fn, args, accel, c, vel_final, pos_final, priv,
                   time_count, printed, first, call, ret>>

\* the rolling velocity loop entered without waiting for the team: the first
\* parallel for does not end with a barrier
PhaseB_nowait ==
    /\ pc = "phaseA"
    /\ LET v == PrefixSum(vel_lut)
       IN  /\ vel_lut' = v.vel_lut
           /\ vel_final' = v.vel_final
    /\ pos_final' = Dbl(0)
    /\ priv' = TeamCopies
    /\ todo' = 1..(vel_lut.len - 1)
    /\ pc' = "phaseC"
    /\ UNCHANGED <<in_main, fn, args, accel, c, time_count, printed, stderr, status,
                   first, call, ret>>

\* past the barrier that ends the first parallel for: the rolling velocity
\* loop, pos_final = 0.0, and the team enters the reduction
PhaseB ==
    /\ pc = "phaseA"
    /\ todo = {}
    /\ LET v == PrefixSum(vel_lut)
       IN  /\ vel_lut' = v.vel_lut
           /\ vel_final' = v.vel_final
    /\ pos_final' = Dbl(0)
    /\ priv' = TeamCopies
    /\ todo' = 1..(vel_lut.len - 1)
    /\ pc' = "phaseC"
    /\ UNCHANGED <<in_main, fn, args, accel, c, time_count, printed, stderr, status,
                   first, call, ret>>

\* a thread whose private pos_final holds p runs iteration sec of the
\* reduction loop
PhaseCTask(p, sec) ==
    /\ pc = "phaseC"
    /\ sec \in todo
    /\ BagIn(p, priv)
    /\ LET d == Delta(vel_lut, sec)
       IN  IF d = Exit
           THEN /\ ExitProcess
                /\ UNCHANGED <<priv, todo>>
           ELSE /\ priv' = (priv (-) SetToBag({p})) (+) SetToBag({DAdd(p, d)})
                /\ todo' = todo \ {sec}
                /\ UNCHANGED <<pc, status, stderr>>
    /\ UNCHANGED <<in_main, fn, args, accel, vel_lut, c, vel_final, pos_final,
                   time_count, printed, first, call, ret>>

\* the combination without the reduction clause: the thread stores its sum
\* over what the threads before it combined
Combine_overwrite(p) ==
    /\ pc = "phaseC"
    /\ todo = {}
    /\ BagIn(p, priv)
    /\ pos_final' = p
    /\ priv' = priv (-) SetToBag({p})
    /\ IF priv' = EmptyBag
       THEN /\ pc' = "end_clock"
            /\ first' = Remember(vel_lut, vel_final, pos_final')
       ELSE UNCHANGED <<pc, first>>
    /\ UNCHANGED <<in_main, fn, args, accel, vel_lut, c, vel_final, todo, time_count,
                   printed, stderr, status, call, ret>>

\* no iteration is left: a thread whose private pos_final holds p combines it
\* into the original pos_final; the region ends when every thread has
Combine(p) ==
    /\ pc = "phaseC"
    /\ todo = {}
    /\ BagIn(p, priv)
    /\ pos_final' = DAdd(pos_final, p)
    /\ priv' = priv (-) SetToBag({p})
    /\ IF priv' = EmptyBag
       THEN /\ pc' = "end_clock"
            /\ first' = Remember(vel_lut, vel_final, pos_final')
       ELSE UNCHANGED <<pc, first>>
    /\ UNCHANGED <<in_main, fn, args, accel, vel_lut, c, vel_final, todo, time_count,
                   printed, stderr, status, call, ret>>

\* the end of an iteration printing the two result lines whatever c is
EndClockOk_each ==
    /\ pc = "end_clock"
    /\ time_count' = time_count + 1
    /\ printed' = Append(printed, [velocity |-> vel_final, position |-> pos_final])
    /\ c' = c + 1
    /\ pc' = "loop"
    /\ UNCHANGED <<in_main, fn, args, accel, vel_lut, vel_final, pos_final, todo, priv,
                   stderr, status, first, call, ret>>

\* clock_gettime(CLOCK_MONOTONIC, &end) == 0: timing_update, and on the last
\* iteration the two result lines
EndClockOk ==
    /\ pc = "end_clock"
    /\ time_count' = time_count + 1
    /\ printed' = IF c = args.iterations - 1
                  THEN Append(printed, [velocity |-> vel_final, position |-> pos_final])
                  ELSE printed
    /\ c' = c + 1
    /\ pc' = "loop"
    /\ UNCHANGED <<in_main, fn, args, accel, vel_lut, vel_final, pos_final, todo, priv,
                   stderr, status, first, call, ret>>

\* the end clock read fails: break
EndClockFail ==
    /\ pc = "end_clock"
    /\ stderr' = stderr \cup {"failed to retrieve end time"}
    /\ pc' = "after_loop"
    /\ UNCHANGED <<in_main, fn, args, accel, vel_lut, c, vel_final, pos_final, todo,
                   priv, time_count, printed, status, first, call, ret>>

\* the loop is left: timing_print, free(vel_lut.lut), return
Finish ==
    /\ \/ pc = "loop" /\ c >= args.iterations
       \/ pc = "after_loop"
    /\ vel_lut' = [vel_lut EXCEPT !.lut = NoLut.lut]
    /\ pc' = "returned"
    /\ UNCHANGED <<in_main, fn, args, accel, c, vel_final, pos_final, todo, priv,
                   time_count, printed, stderr, status, first, call, ret>>

\* main: return 0
MainReturn ==
    /\ pc = "returned"
    /\ in_main
    /\ status' = "EXIT_SUCCESS"
    /\ pc' = "done"
    /\ UNCHANGED <<in_main, fn, args, accel, vel_lut, c, vel_final, pos_final, todo,
                   priv, time_count, printed, stderr, first, call, ret>>

Next ==
    \/ Main
    \/ Alloc
    \/ StartClockFail
    \/ SeqIteration
    \/ OmpStart
    \/ \E t \in Threads, sec \in todo : PhaseATask(t, sec)
    \/ PhaseB
    \/ \E p \in BagToSet(priv), sec \in todo : PhaseCTask(p, sec)
    \/ \E p \in BagToSet(priv) : Combine(p)
    \/ EndClockOk
    \/ EndClockFail
    \/ Finish
    \/ MainReturn

Spec == Init /\ [][Next]_vars

-----------------------------------------------------------------------------
(* summation.c called directly: get_lut_index, calc_linear_interpolation   *)
(* and the five rules, on arguments that need not be in range              *)

\* the tables, indices, subdivision counts and x values tried: indices from
\* -2 to past the longest table, x in steps of half a subdivision
UnitTables ==
    UNION {[1..l -> UnitSamples] : l \in 1..(MaxLen + 1)} \cup {ScenarioTable}

UnitIndices == (-2)..(MaxLen + 2)

UnitSteps == 1..(2 * MaxStep)

UnitXs == {Norm(k, 2 * d) : k \in (-4 * MaxStep)..(2 * MaxStep * (MaxLen + 2)), d \in 1..MaxStep}

InitUnit ==
    /\ accel \in {MkLut(t) : t \in UnitTables}
    /\ args = DefaultArgs
    /\ in_main = FALSE
    /\ pc = "caller"
    /\ fn = "none"
    /\ vel_lut = NoLut
    /\ c = 0
    /\ vel_final = Dbl(0)
    /\ pos_final = Dbl(0)
    /\ todo = {}
    /\ priv = EmptyBag
    /\ time_count = 0
    /\ printed = <<>>
    /\ stderr = {}
    /\ status = "running"
    /\ first = NoResult
    /\ call = NoCall
    /\ ret = NoRet

\* the call returns v to its caller, or the process has exited inside it
Return(v) ==
    IF v = Exit
    THEN /\ ExitProcess
         /\ ret' = NoRet
    ELSE /\ ret' = v
         /\ pc' = "called"
         /\ UNCHANGED <<status, stderr>>

CallGetLutIndex(index) ==
    /\ pc = "caller"
    /\ call' = [NoCall EXCEPT !.op = "get_lut_index", !.index = index]
    /\ Return(get_lut_index(accel, index))
    /\ UNCHANGED <<in_main, fn, args, accel, vel_lut, c, vel_final, pos_final, todo,
                   priv, time_count, printed, first>>

CallInterpolation(x) ==
    /\ pc = "caller"
    /\ call' = [NoCall EXCEPT !.op = "calc_linear_interpolation", !.x = x]
    /\ Return(calc_linear_interpolation(accel, x))
    /\ UNCHANGED <<in_main, fn, args, accel, vel_lut, c, vel_final, pos_final, todo,
                   priv, time_count, printed, first>>

\* a rule over the unit interval [lower, lower + 1] of the table
CallSummation(algo, lower, iterations) ==
    /\ pc = "caller"
    /\ call' = [NoCall EXCEPT !.op = "summation", !.algo = algo, !.lower = lower,
                              !.iterations = iterations]
    /\ Return(sum_cb(algo, Dbl(lower), Dbl(lower + 1), iterations, accel,
                     "calc_linear_interpolation"))
    /\ UNCHANGED <<in_main, fn, args, accel, vel_lut, c, vel_final, pos_final, todo,
                   priv, time_count, printed, first>>

NextUnit ==
    \/ \E index \in UnitIndices : CallGetLutIndex(index)
    \/ \E x \in UnitXs : CallInterpolation(x)
    \/ \E algo \in Algos, lower \in UnitIndices, iterations \in UnitSteps :
          CallSummation(algo, lower, iterations)

SpecUnit == InitUnit /\ [][NextUnit]_vars

-----------------------------------------------------------------------------
(* Properties of the summation rules and of the interpolator, SpecUnit *)

\* the last direct call was the rule algo over an interval inside the table
SummedInside ==
    /\ call.op = "summation"
    /\ call.lower >= 0
    /\ call.lower + 1 <= accel.len - 1

\* the table is constant over the interval summed, so the integrand is
ConstantIntegrand == SummedInside /\ accel.lut[call.lower] = accel.lut[call.lower + 1]

\* the exact integral of the piecewise-linear integrand over the interval summed
TrueIntegral == DDiv(DAdd(accel.lut[call.lower], accel.lut[call.lower + 1]), Dbl(2))

\* C2 as stated: every one of the five rules, with any subdivision count >= 1,
\* integrates a constant integrand f(x) = k over [a, a+1] to exactly k.
Cex_C2 == ConstantIntegrand => ret = accel.lut[call.lower]

\* C2 amended: left_riemann, mid_riemann, right_riemann and trapezoidal with any
\* subdivision count >= 1, and simpsons with an even subdivision count,
\* integrate a constant integrand f(x) = k over [a, a+1] to exactly k.
Thm_C2 ==
    (ConstantIntegrand /\ (call.algo = SIMPSONS => call.iterations % 2 = 0))
        => ret = accel.lut[call.lower]

Wit_C2 ==
    /\ ConstantIntegrand
    /\ call.algo = SIMPSONS
    /\ call.iterations % 2 = 0
    /\ accel.lut[call.lower] # Dbl(0)
    /\ ret = accel.lut[call.lower]

\* C3 as stated: trapezoidal and simpsons integrate a linear integrand over a
\* unit interval exactly for any subdivision count >= 1, odd or even.
Cex_C3 ==
    (SummedInside /\ call.algo \in {TRAPEZOIDAL, SIMPSONS}) => ret = TrueIntegral

\* C3 amended: trapezoidal with any subdivision count >= 1, and simpsons with
\* an even subdivision count, integrate a linear integrand over a unit
\* interval exactly.
Thm_C3 ==
    /\ (SummedInside /\ call.algo = TRAPEZOIDAL) => ret = TrueIntegral
    /\ (SummedInside /\ call.algo = SIMPSONS /\ call.iterations % 2 = 0)
           => ret = TrueIntegral

Wit_C3 ==
    /\ SummedInside
    /\ call.algo = TRAPEZOIDAL
    /\ call.iterations > 1
    /\ call.iterations % 2 = 1
    /\ accel.lut[call.lower] # accel.lut[call.lower + 1]
    /\ ret = TrueIntegral

\* the last direct call was calc_linear_interpolation on a non-integer x
InterpolatedBetween == call.op = "calc_linear_interpolation" /\ ~IsWhole(call.x)

\* C5: for a non-integer x the interpolator uses x0 = floor(x) and x1 = x0 + 1
\* and fails unless both are indices in [0, len-1], so every non-integer x < 0
\* and every non-integer x > len-1 fails; otherwise it returns
\* y0 + (x - x0) * (y1 - y0).
Cex_C5 ==
    InterpolatedBetween =>
        LET x0 == Floor(call.x)
            x1 == x0 + 1
        IN  IF x0 >= 0 /\ x1 <= accel.len - 1
            THEN /\ pc = "called"
                 /\ ret = DAdd(accel.lut[x0],
                               DMul(DSub(call.x, Dbl(x0)), DSub(accel.lut[x1], accel.lut[x0])))
            ELSE pc = "exited"

\* the index of the last direct call, or the whole x it was given, as an index
CalledIndex == IF call.op = "get_lut_index" THEN call.index ELSE call.x.n

AccessedOne ==
    \/ call.op = "get_lut_index"
    \/ call.op = "calc_linear_interpolation" /\ IsWhole(call.x)

\* C10: a table access at an index (get_lut_index) or at an integer-valued x
\* (calc_linear_interpolation) returns table[x] unchanged when 0 <= x <= len-1
\* and fails otherwise: -1 and len fail, 0 and len-1 succeed.
Thm_C10 ==
    AccessedOne =>
        IF 0 <= CalledIndex /\ CalledIndex <= accel.len - 1
        THEN pc = "called" /\ ret = accel.lut[CalledIndex]
        ELSE pc = "exited" /\ ret = NoRet

Wit_C10 ==
    /\ call.op = "calc_linear_interpolation"
    /\ call.x = Dbl(accel.len)
    /\ accel.len > 1
    /\ pc = "exited"

\* the table indices an evaluation of the integrand at x fetches
Touched(x) == IF IsWhole(x) THEN {ToInt32(x)} ELSE {ToInt32(x), ToInt32(x) + 1}

\* the points at which the rule algo over [lower, lower + 1] with n
\* subdivisions evaluates the integrand
SamplePoints(algo, lower, n) ==
    LET pt(i) == DAdd(Dbl(lower), Norm(i, n))
    IN  CASE algo = LEFT_RIEMANN -> {pt(i) : i \in 0..(n - 1)}
          [] algo = MID_RIEMANN -> {DAdd(pt(i), Norm(1, 2 * n)) : i \in 0..(n - 1)}
          [] algo = RIGHT_RIEMANN -> {pt(i) : i \in 1..n}
          [] OTHER -> {pt(i) : i \in 0..n}

\* the last direct call reached a table index outside [0, len-1]
OutOfRangeAccess ==
    LET reached ==
            CASE call.op = "get_lut_index" -> {call.index}
              [] call.op = "calc_linear_interpolation" -> Touched(call.x)
              [] call.op = "summation" ->
                    UNION {Touched(x) : x \in SamplePoints(call.algo, call.lower, call.iterations)}
              [] OTHER -> {}
    IN  \E i \in reached : i < 0 \/ i >= accel.len

\* C4 as stated: an out-of-range table access is propagated to the caller as an
\* error value and does not terminate the process.
Cex_C4 == OutOfRangeAccess => (pc = "called" /\ status = "running")

\* C4 amended: an out-of-range table access writes a diagnostic to stderr and
\* terminates the process with exit(EXIT_FAILURE) inside get_lut_index; no
\* value, error or other, is returned to the caller. A call all of whose
\* accesses are in range returns.
Thm_C4 ==
    /\ OutOfRangeAccess <=> pc = "exited"
    /\ pc = "exited" =>
          /\ status = "EXIT_FAILURE"
          /\ ret = NoRet
          /\ "lut index out of bounds" \in stderr

Wit_C4 ==
    /\ call.op = "summation"
    /\ call.lower = accel.len - 1
    /\ OutOfRangeAccess
    /\ pc = "exited"
    /\ status = "EXIT_FAILURE"

-----------------------------------------------------------------------------
(* Properties of the pipelines, Spec *)

\* the result the iteration that just ended has computed
Result == [vel |-> vel_lut.lut, vel_final |-> vel_final, pos_final |-> pos_final]

\* the result of the loops of run_sim on the same table and configuration
SeqResult ==
    LET v == SeqVelocity
    IN  [vel |-> v.vel_lut.lut, vel_final |-> v.vel_final,
         pos_final |-> SeqPosition(v.vel_lut)]

\* C1: for a fixed configuration and table, run_sim_openmp with 1, 2 or 4
\* threads ends every iteration with the velocity table, final velocity and
\* final position that run_sim computes, under every interleaving, and prints
\* the same result lines.
Thm_C1 ==
    /\ (fn = "run_sim_openmp" /\ pc = "end_clock") => Result = SeqResult
    /\ pc \in {"loop", "after_loop"} =>
          \A i \in DOMAIN printed :
              printed[i] = [velocity |-> SeqResult.vel_final,
                            position |-> SeqResult.pos_final]

Wit_C1 ==
    /\ fn = "run_sim_openmp"
    /\ pc = "end_clock"
    /\ args.threads = 4
    /\ accel.len >= 3
    /\ pos_final # Dbl(0)
    /\ Result = SeqResult

\* C6: a failed allocation of the velocity table is reported to the caller as
\* an error: when main ends after it, the outcome differs from that of a
\* successful run.
Cex_C6 ==
    (pc = "done" /\ "failed allocating vel lookup table" \in stderr)
        => status # "EXIT_SUCCESS"

\* the locations inside the iteration loop of a pipeline
InLoop == pc \in {"loop", "phaseA", "phaseC", "end_clock", "after_loop"}

\* every iteration that ran to its end has the result of the first that did
SameAsFirst == pc = "end_clock" => Result = first

\* C7 as stated: the velocity table is allocated at the start of each
\* iteration and freed at its end, no state other than the timing statistics
\* survives an iteration, and every iteration has the result of the first.
Cex_C7 ==
    /\ SameAsFirst
    /\ (pc = "loop" /\ c > 0) => vel_lut.lut = NoLut.lut

\* C7 amended: the velocity table is allocated once, before the first
\* iteration, and freed once, after the last; its contents survive from one
\* iteration to the next, but every iteration overwrites the slots 1..len-1
\* before it reads them and slot 0 stays 0.0, so every iteration has the
\* velocity table, final velocity and final position of the first, in both
\* pipelines.
Thm_C7 ==
    /\ SameAsFirst
    /\ InLoop => (DOMAIN vel_lut.lut = 0..(accel.len - 1) /\ vel_lut.lut[0] = Dbl(0))
    /\ pc \in {"main", "alloc", "returned", "done"} => vel_lut.lut = NoLut.lut

Wit_C7 ==
    /\ pc = "end_clock"
    /\ time_count >= 1
    /\ c >= 1
    /\ vel_final # Dbl(0)
    /\ Result = first

\* the sum of the entries 0..hi of a table
RECURSIVE Sigma(_, _)
Sigma(lut, hi) == IF hi < 0 THEN Dbl(0) ELSE DAdd(Sigma(lut, hi - 1), lut.lut[hi])

\* C8: with LEFT_RIEMANN and one subdivision velocity[sec] is the sum of
\* accel[0..sec-1] and the final position is the sum of velocity[0..len-2];
\* for the table [0, 1, 2, 3] the velocity table is [0, 0, 1, 3], the final
\* velocity 3 and the final position 1.
Thm_C8 ==
    (pc = "end_clock" /\ args.algo = LEFT_RIEMANN /\ args.step = 1) =>
        /\ \A sec \in 0..(accel.len - 1) : vel_lut.lut[sec] = Sigma(accel, sec - 1)
        /\ vel_final = vel_lut.lut[accel.len - 1]
        /\ pos_final = Sigma(vel_lut, accel.len - 2)
        /\ accel = MkLut(ScenarioTable) =>
              /\ vel_lut = MkLut(<<0, 0, 1, 3>>)
              /\ vel_final = Dbl(3)
              /\ pos_final = Dbl(1)

Wit_C8 ==
    /\ pc = "end_clock"
    /\ fn = "run_sim"
    /\ args.algo = LEFT_RIEMANN
    /\ args.step = 1
    /\ accel = MkLut(ScenarioTable)
    /\ vel_lut = MkLut(<<0, 0, 1, 3>>)
    /\ pos_final = Dbl(1)

\* C9: on a table of length 1 neither pipeline has an interval to sum: no
\* iteration of a parallel loop exists, no access is out of range, and every
\* iteration ends with final velocity 0 and final position 0, for every rule
\* and subdivision count.
Thm_C9 ==
    accel.len = 1 =>
        /\ todo = {}
        /\ pc # "exited"
        /\ status # "EXIT_FAILURE"
        /\ pc = "end_clock" => (vel_final = Dbl(0) /\ pos_final = Dbl(0))
        /\ \A i \in DOMAIN printed :
              printed[i] = [velocity |-> Dbl(0), position |-> Dbl(0)]

Wit_C9 ==
    /\ accel = MkLut(<<5>>)
    /\ fn = "run_sim_openmp"
    /\ pc = "loop"
    /\ printed = <<[velocity |-> Dbl(0), position |-> Dbl(0)]>>

\* the pipeline main's dispatch calls under the configured thread count
Selected == IF args.threads = 1 THEN "run_sim" ELSE "run_sim_openmp"

\* the locations and steps that belong to one pipeline only
InParallelRegion == pc \in {"phaseA", "phaseC"}

\* C11: in a run of main the pipeline is the one the configured thread count
\* selects, run_sim for threads = 1 and run_sim_openmp for every threads > 1;
\* once a pipeline is entered it is never exchanged for the other, and the
\* parallel regions are entered by run_sim_openmp only.
Thm_C11 ==
    [][/\ (in_main' /\ fn' # "none") => fn' = Selected'
       /\ fn # "none" => fn' = fn
       /\ InParallelRegion' => fn' = "run_sim_openmp"
       /\ (in_main /\ args.threads = 1) => ~InParallelRegion']_vars

Wit_C11 ==
    /\ in_main
    /\ args.threads = 4
    /\ fn = "run_sim_openmp"
    /\ pc = "returned"
    /\ printed # <<>>

\* C12: no step of main, run_sim or run_sim_openmp, with any rule, subdivision
\* count, thread count and iteration count, changes the acceleration table:
\* its length and every element stay what the caller passed in; the table a
\* step writes is the velocity table of the pipeline.
Thm_C12 ==
    [][/\ accel'.len = accel.len
       /\ \A i \in 0..(accel.len - 1) : accel'.lut[i] = accel.lut[i]
       /\ DOMAIN accel'.lut = DOMAIN accel.lut]_vars

Wit_C12 ==
    /\ pc = "returned"
    /\ fn = "run_sim_openmp"
    /\ accel = MkLut(ScenarioTable)
    /\ first.vel = MkLut(<<0, 1, 3, 6>>).lut
    /\ printed # <<>>

\* every iteration sec of the first parallel for has stored its sum
PhaseADone ==
    /\ todo = {}
    /\ \A sec \in 1..(accel.len - 1) : vel_lut.lut[sec] = Delta(accel, sec)

\* the rolling velocity loop has run over every index of the velocity table
PhaseBApplied ==
    /\ vel_lut.lut[0] = Dbl(0)
    /\ \A index \in 1..(accel.len - 1) :
          vel_lut.lut[index] = DAdd(vel_lut.lut[index - 1], Delta(accel, index))
    /\ vel_final = vel_lut.lut[accel.len - 1]

\* C13: in run_sim_openmp the rolling velocity loop (phase B) starts only when
\* every iteration of the first parallel for of the same pass has stored its
\* sum, and while the reduction loop (phase C) runs, the velocity table holds
\* the running sum at every index and is not written, under every
\* interleaving of the threads.
Thm_C13 ==
    [][/\ (pc = "phaseA" /\ pc' # "phaseA") => (PhaseADone /\ pc' = "phaseC")
       /\ pc = "phaseC" => (PhaseBApplied /\ vel_lut' = vel_lut)]_vars

Wit_C13 ==
    /\ pc = "phaseC"
    /\ c = 1
    /\ args.threads = 2
    /\ accel = MkLut(ScenarioTable)
    /\ Cardinality(todo) = 1
    /\ PhaseBApplied
    /\ vel_lut.lut[2] # Delta(accel, 2)

\* the step is one iteration sec of the first parallel for: it stores into
\* slot sec, and into no other, a value computed from the acceleration table
\* alone, and sec was not executed before in this pass
OwnSlotOnly(sec) ==
    /\ sec \in todo
    /\ todo' = todo \ {sec}
    /\ vel_lut'.len = vel_lut.len
    /\ DOMAIN vel_lut'.lut = DOMAIN vel_lut.lut
    /\ vel_lut'.lut[sec] = Delta(accel, sec)
    /\ \A s \in DOMAIN vel_lut.lut : s # sec => vel_lut'.lut[s] = vel_lut.lut[s]
    /\ accel' = accel

\* C14: in the first parallel for of run_sim_openmp the indices 1..len-1 are
\* handed out once each; every task stores into its own slot vel_lut.lut[sec]
\* only, the value it stores depends on the acceleration table alone, and an
\* index that was executed is not executed again in the same pass, whichever
\* thread runs which index.
Thm_C14 ==
    [][/\ (pc = "loop" /\ pc' = "phaseA") => (todo' = 1..(accel.len - 1) /\ vel_lut' = vel_lut)
       /\ (pc = "phaseA" /\ pc' = "phaseA") => \E sec \in 1..(accel.len - 1) : OwnSlotOnly(sec)
       /\ (pc = "phaseA" /\ pc' = "phaseC") => todo = {}]_vars

Wit_C14 ==
    /\ pc = "phaseA"
    /\ c = 1
    /\ args.threads = 4
    /\ accel = MkLut(ScenarioTable)
    /\ todo = {2}
    /\ vel_lut.lut[3] = Delta(accel, 3)
    /\ vel_lut.lut[2] # Delta(accel, 2)

\* the sum of the private copies of pos_final the bag b holds
RECURSIVE SumCopies(_)
SumCopies(b) ==
    IF DOMAIN b = {} THEN Dbl(0)
    ELSE LET p == CHOOSE q \in DOMAIN b : TRUE
         IN  DAdd(DMul(Dbl(b[p]), p), SumCopies([q \in DOMAIN b \ {p} |-> b[q]]))

\* the sum of the position deltas of the seconds in secs
RECURSIVE SumDeltas(_)
SumDeltas(secs) ==
    IF secs = {} THEN Dbl(0)
    ELSE LET sec == CHOOSE s \in secs : TRUE
         IN  DAdd(Delta(vel_lut, sec), SumDeltas(secs \ {sec}))

\* C15: throughout the reduction loop of run_sim_openmp the deltas of the
\* seconds 1..len-1 are each in exactly one place: still to be computed, in
\* the private sum of one thread, or combined into pos_final; when the region
\* ends no private sum is left and pos_final is the sum of every delta taken
\* once, for every partition of the indices among the threads and every order
\* of combining.
Thm_C15 ==
    /\ pc = "phaseC" =>
          DAdd(pos_final, DAdd(SumCopies(priv), SumDeltas(todo)))
              = SumDeltas(1..(vel_lut.len - 1))
    /\ (pc = "phaseC" /\ todo # {}) => pos_final = Dbl(0)
    /\ (fn = "run_sim_openmp" /\ pc = "end_clock") =>
          /\ priv = EmptyBag
          /\ todo = {}
          /\ pos_final = SumDeltas(1..(vel_lut.len - 1))

Wit_C15 ==
    /\ pc = "phaseC"
    /\ todo = {}
    /\ args.threads = 4
    /\ accel = MkLut(ScenarioTable)
    /\ pos_final # Dbl(0)
    /\ BagCardinality(priv) = 2
    /\ \A p \in BagToSet(priv) : p # Dbl(0)

\* the table indices the summation of the second sec fetches under the
\* configured rule and subdivision count
Fetched(sec) == UNION {Touched(x) : x \in SamplePoints(args.algo, sec - 1, args.step)}

\* C16: on a table of length >= 1 with a subdivision count >= 1, in run_sim
\* and in run_sim_openmp, every rule, simpsons with an odd count included,
\* samples the second [sec-1, sec] of every sec in 1..len-1 at points whose
\* table accesses lie in 0..len-1: no summation ends in exit(EXIT_FAILURE),
\* the out-of-bounds diagnostic is never written and the process never exits
\* from inside a pipeline.
Thm_C16 ==
    /\ \A sec \in 1..(accel.len - 1) :
          /\ Fetched(sec) \subseteq 0..(accel.len - 1)
          /\ Delta(accel, sec) # Exit
          /\ InLoop => Delta(vel_lut, sec) # Exit
    /\ pc # "exited"
    /\ status # "EXIT_FAILURE"
    /\ "lut index out of bounds" \notin stderr

Wit_C16 ==
    /\ pc = "returned"
    /\ fn = "run_sim_openmp"
    /\ args.algo = SIMPSONS
    /\ args.step = 1
    /\ accel = MkLut(ScenarioTable)
    /\ Fetched(3) = {2, 3}
    /\ printed # <<>>

\* the step ends iteration c with a successful end clock read
IterationTimed == pc = "end_clock" /\ pc' = "loop"

\* the step is a failed start clock read
StartFailed == pc = "loop" /\ pc' = "loop"

\* the step is a failed end clock read
EndFailed == pc = "end_clock" /\ pc' # "loop"

\* C17: in every run of run_sim or run_sim_openmp the result lines are written
\* by one kind of step only, the end of iteration c = iterations - 1 after
\* both of its clock reads succeeded, and so at most once; a failed start
\* clock read moves on to the next iteration with nothing computed, timed or
\* printed, and a failed end clock read leaves the loop with nothing printed,
\* after which the function only returns.
Thm_C17 ==
    [][/\ Len(printed') <= 1
       /\ printed' # printed <=> (IterationTimed /\ c = args.iterations - 1)
       /\ printed' # printed =>
             printed' = <<[velocity |-> vel_final, position |-> pos_final]>>
       /\ StartFailed =>
             /\ c' = c + 1
             /\ "failed to retrieve start time" \in stderr'
             /\ UNCHANGED <<vel_lut, vel_final, pos_final, time_count, printed>>
       /\ EndFailed =>
             /\ pc' = "after_loop"
             /\ "failed to retrieve end time" \in stderr'
             /\ UNCHANGED <<c, time_count, printed>>
       /\ pc = "after_loop" => (pc' = "returned" /\ printed' = printed)
       /\ pc \in {"returned", "done"} => printed' = printed]_vars

Wit_C17 ==
    /\ pc = "returned"
    /\ args.iterations = 2
    /\ c = 1
    /\ time_count = 1
    /\ "failed to retrieve end time" \in stderr
    /\ first.pos_final # Dbl(0)
    /\ printed = <<>>

====
